---- MODULE Spec2Model ----
(***************************************************************************)
(* GPS-Lap-Tracker: the track metric and lap segmentation engine of        *)
(* myPyGPX.py (Point, TrackPoint, Track, Analyse) and laps.py (Lap,        *)
(* LapExtractor).                                                          *)
(*                                                                         *)
(* Python objects live in a heap: a TrackPoint is an id, heap[id] holds    *)
(* its attributes, and a track segment is a sequence of ids, so that two   *)
(* lists naming the same TrackPoint object alias it and deepcopy() gives   *)
(* fresh ids.  None is the empty tuple, a set attribute v is <<v>>.        *)
(* Floats are modelled by exact numbers: distances, times and elevations   *)
(* are integers, speeds and paces are rationals <<num, den>>.              *)
(* Python list indices are kept 0-based wherever the code stores them      *)
(* (listOfSplitIndices); sequences are 1-based, so list[i] is seq[i + 1].  *)
(***************************************************************************)
EXTENDS Integers, Sequences, FiniteSets, TLC

VARIABLES heap, trackSegList, serializedTrack, laps, listOfSplitIndices,
          call, raised, result, used, frame, newTrack

vars == <<heap, trackSegList, serializedTrack, laps, listOfSplitIndices,
          call, raised, result, used, frame, newTrack>>

\* ------------------------------------------------------------------ bounds
\* most track points in the reference track
MaxPoints == 3
\* largest distance (m) between two consecutive track points
MaxStep == 2
\* largest time lapse (s) between two consecutive track points
MaxDt == 2
\* largest elevation (m) of the terrain
MaxEle == 1
\* largest autoSplitValue
MaxSplit == 3
\* largest distance or time marker
MaxMarker == 3
\* largest nForAverage
MaxAverage == 2
\* most calls a run makes on the track and the laps
MaxCalls == 2
\* most steps of an evenly spaced track
MaxEvenSteps == 10
\* the paces formatted are the multiples of 1/PaceUnit min/km up to
\* MaxPaceUnits/PaceUnit
PaceUnit == 1000
MaxPaceUnits == 5000
\* a two-point track for the pace values: at most MaxMeters metres covered in
\* at most MaxSeconds seconds
MaxMeters == 5
MaxSeconds == 18
\* a series for the filter: at most MaxLen pairs with x in 0..MaxX and y in
\* 0..MaxY
MaxLen == 3
MaxX == 1
MaxY == 2
MaxPasses == 6
MaxRadius == 1

\* ------------------------------------------------------------ basic values
None == <<>>
Some(v) == <<v>>
IsNone(o) == o = <<>>
Val(o) == o[1]

Abs(a) == IF a < 0 THEN 0 - a ELSE a

RECURSIVE GCD(_, _)
GCD(a, b) == IF b = 0 THEN a ELSE GCD(b, a % b)

\* the rational n/d in lowest terms, d > 0
Rat(n, d) ==
    LET g == GCD(Abs(n), Abs(d))
        s == IF d < 0 THEN 0 - 1 ELSE 1
    IN  <<(s * n) \div g, (s * d) \div g>>
RatOfInt(n) == <<n, 1>>
RatAdd(a, b) == Rat(a[1] * b[2] + b[1] * a[2], a[2] * b[2])
RatMul(a, b) == Rat(a[1] * b[1], a[2] * b[2])
\* a / b, b # 0
RatDiv(a, b) == Rat(a[1] * b[2], a[2] * b[1])
RatLess(a, b) == a[1] * b[2] < b[1] * a[2]

\* Python's list[lo:hi] with 0 <= lo, as the elements lo+1 .. min(hi, len)
Slice(s, lo, hi) ==
    LET top == IF hi > Len(s) THEN Len(s) ELSE hi
    IN  [k \in 1..(IF top > lo THEN top - lo ELSE 0) |-> s[lo + k]]

\* Op(v) with v evaluated once, before Op is applied (TLC binds the elements of
\* a set eagerly; operator arguments and LET definitions are evaluated on use)
Force(v, Op(_)) == CHOOSE r \in {Op(x) : x \in {v}} : TRUE

RECURSIVE Flatten(_)
Flatten(segs) == IF segs = <<>> THEN <<>> ELSE Head(segs) \o Flatten(Tail(segs))

\* ------------------------------------------------------------- Time, Point
\* Time.timeInterval: seconds from other to self (timestamps are seconds)
timeInterval(selfTime, otherTime) == selfTime - otherTime

\* Point.distance: the flat-earth distance in metres, on an integer grid
\* whose unit is one metre in each direction
distance(p, q) == Abs(q.lat - p.lat) + Abs(q.lon - p.lon)

\* TrackPoint.__init__: the derived attributes start unset
TrackPoint(lat, lon, time, elevation) ==
    [lat |-> lat, lon |-> lon, elevation |-> elevation, time |-> time,
     accumulatedDistance |-> None, accumulatedElevation |-> None,
     speed |-> None]

\* ---------------------------------------------------- Track: derived passes
\* the loop "for i in range(1, len(pointList))" of the distance pass
RECURSIVE AccDistanceInSegment(_, _, _)
AccDistanceInSegment(h, pointList, i) ==
    IF i >= Len(pointList) THEN h
    ELSE LET cur  == pointList[i + 1]
             prev == pointList[i]
             newAccumulatedDistance ==
                 Val(h[prev].accumulatedDistance) + distance(h[cur], h[prev])
         IN  Force([h EXCEPT ![cur].accumulatedDistance = Some(newAccumulatedDistance)],
                   LAMBDA hh : AccDistanceInSegment(hh, pointList, i + 1))

\* (mutant) the distance restarts at 0 in every segment
RECURSIVE AccDistanceSegmentsLocal(_, _, _, _)
AccDistanceSegmentsLocal(h, segs, k, lastPointPrevTrkSeg) ==
    IF k > Len(segs) THEN h
    ELSE Force(Force([h EXCEPT ![segs[k][1]].accumulatedDistance = Some(0)],
                     LAMBDA hh : AccDistanceInSegment(hh, segs[k], 1)),
               LAMBDA h2 : AccDistanceSegmentsLocal(h2, segs, k + 1,
                                                    segs[k][Len(segs[k])]))

\* the loop over the segments; k is the 1-based segment, last the last point
\* of the previous segment
RECURSIVE AccDistanceSegments(_, _, _, _)
AccDistanceSegments(h, segs, k, lastPointPrevTrkSeg) ==
    IF k > Len(segs) THEN h
    ELSE LET pointList == segs[k]
             first == pointList[1]
             h1 == IF k = 1
                   THEN [h EXCEPT ![first].accumulatedDistance = Some(0)]
                   ELSE [h EXCEPT ![first].accumulatedDistance =
                            Some(Val(h[lastPointPrevTrkSeg].accumulatedDistance)
                                 + distance(h[first], h[lastPointPrevTrkSeg]))]
         IN  Force(Force(h1, LAMBDA hh : AccDistanceInSegment(hh, pointList, 1)),
                   LAMBDA h2 : AccDistanceSegments(h2, segs, k + 1,
                                                   pointList[Len(pointList)]))

\* Track._computeAccDistanceForEachTrackPoint: the heap after the pass
_computeAccDistanceForEachTrackPoint(h, segs) ==
    AccDistanceSegments(h, segs, 1, 0)

\* Track.getSerialized: the distance pass, then the points in one list (the
\* TrackPoint objects themselves, not copies)
getSerialized(h, segs) ==
    [heap |-> _computeAccDistanceForEachTrackPoint(h, segs),
     list |-> Flatten(segs)]

\* (mutant) the total taken from a fresh pass on every call
totalDistanceRecomputed(h, segs) ==
    Force(_computeAccDistanceForEachTrackPoint(h, segs), LAMBDA h1 :
        [heap |-> h1,
         value |-> Val(h1[segs[Len(segs)][Len(segs[Len(segs)])]].accumulatedDistance)])

\* Track.totalDistance: the cached value of the last point, or the pass
totalDistance(h, segs) ==
    LET lastSeg   == segs[Len(segs)]
        lastPoint == lastSeg[Len(lastSeg)]
    IN  IF IsNone(h[lastPoint].accumulatedDistance)
        THEN Force(_computeAccDistanceForEachTrackPoint(h, segs), LAMBDA h1 :
                 [heap |-> h1, value |-> Val(h1[lastPoint].accumulatedDistance)])
        ELSE [heap |-> h, value |-> Val(h[lastPoint].accumulatedDistance)]

\* Track.getStartTime, getFinishTime, totalTime
getStartTime(h, segs) == h[segs[1][1]].time
getFinishTime(h, segs) == h[segs[Len(segs)][Len(segs[Len(segs)])]].time
totalTime(h, segs) == timeInterval(getFinishTime(h, segs), getStartTime(h, segs))

\* the loop "for i in range(1, len(pointList))" of the elevation pass
RECURSIVE AccElevationInSegment(_, _, _)
AccElevationInSegment(h, pointList, i) ==
    IF i >= Len(pointList) THEN h
    ELSE LET cur  == pointList[i + 1]
             prev == pointList[i]
             rise == h[cur].elevation - h[prev].elevation
             verticalDistanceFromPrevious == IF rise < 0 THEN 0 ELSE rise
         IN  Force([h EXCEPT ![cur].accumulatedElevation =
                       Some(Val(h[prev].accumulatedElevation) + verticalDistanceFromPrevious)],
                   LAMBDA hh : AccElevationInSegment(hh, pointList, i + 1))

RECURSIVE AccElevationSegments(_, _, _, _)
AccElevationSegments(h, segs, k, lastPointPrevTrkSeg) ==
    IF k > Len(segs) THEN h
    ELSE LET pointList == segs[k]
             first == pointList[1]
             rise == h[first].elevation - h[lastPointPrevTrkSeg].elevation
             verticalDistanceFromPrevious == IF rise < 0 THEN 0 ELSE rise
             h1 == IF k = 1
                   THEN [h EXCEPT ![first].accumulatedElevation = Some(0)]
                   ELSE [h EXCEPT ![first].accumulatedElevation =
                            Some(Val(h[lastPointPrevTrkSeg].accumulatedElevation)
                                 + verticalDistanceFromPrevious)]
         IN  Force(Force(h1, LAMBDA hh : AccElevationInSegment(hh, pointList, 1)),
                   LAMBDA h2 : AccElevationSegments(h2, segs, k + 1,
                                                    pointList[Len(pointList)]))

\* Track._computeAccElevationForEachTrackPoint: the heap after the pass
_computeAccElevationForEachTrackPoint(h, segs) ==
    AccElevationSegments(h, segs, 1, 0)

\* the speed of a point with respect to the point before it; the division
\* raises ZeroDivisionError when the two carry the same timestamp
SpeedFromPrevious(h, cur, prev) ==
    LET distanceFromPrevious == distance(h[cur], h[prev])
        timeLapseFromPrevious == timeInterval(h[cur].time, h[prev].time)
    IN  IF timeLapseFromPrevious = 0
        THEN [raised |-> "ZeroDivisionError", speed |-> None]
        ELSE [raised |-> "none",
              speed |-> Some(Rat(distanceFromPrevious, timeLapseFromPrevious))]

\* the loop "for i in range(1, len(pointList))" of the speed pass
RECURSIVE SpeedInSegment(_, _, _)
SpeedInSegment(h, pointList, i) ==
    IF i >= Len(pointList) THEN [heap |-> h, raised |-> "none"]
    ELSE LET cur == pointList[i + 1]
         IN  Force(SpeedFromPrevious(h, cur, pointList[i]), LAMBDA sp :
                 IF sp.raised # "none" THEN [heap |-> h, raised |-> sp.raised]
                 ELSE Force([h EXCEPT ![cur].speed = sp.speed],
                            LAMBDA hh : SpeedInSegment(hh, pointList, i + 1)))

RECURSIVE SpeedSegments(_, _, _, _)
SpeedSegments(h, segs, k, lastPointPrevTrkSeg) ==
    IF k > Len(segs) THEN [heap |-> h, raised |-> "none"]
    ELSE LET pointList == segs[k]
             first == pointList[1]
             fromPrevious == IF k = 1 THEN [raised |-> "none", speed |-> None]
                             ELSE SpeedFromPrevious(h, first, lastPointPrevTrkSeg)
         IN  Force(fromPrevious, LAMBDA sp :
                 IF sp.raised # "none" THEN [heap |-> h, raised |-> sp.raised]
                 ELSE Force(Force([h EXCEPT ![first].speed = sp.speed],
                                  LAMBDA hh : SpeedInSegment(hh, pointList, 1)),
                            LAMBDA inSeg :
                                IF inSeg.raised # "none" THEN inSeg
                                ELSE SpeedSegments(inSeg.heap, segs, k + 1,
                                                   pointList[Len(pointList)])))

\* (mutant) the pass without the final step for the first point
speedPassWithoutFirstPoint(h, segs) == SpeedSegments(h, segs, 1, 0)

\* Track._computeSpeedForEachTrackPoint: the pass, then the speed of the first
\* point set to the speed of the second point of the first segment
\* (firstPointList[1] raises IndexError in a one-point first segment)
_computeSpeedForEachTrackPoint(h, segs) ==
    LET firstPointList == segs[1]
    IN  Force(SpeedSegments(h, segs, 1, 0), LAMBDA pass :
            IF pass.raised # "none" THEN pass
            ELSE IF Len(firstPointList) < 2
            THEN [heap |-> pass.heap, raised |-> "IndexError"]
            ELSE [heap |-> [pass.heap EXCEPT ![firstPointList[1]].speed =
                               pass.heap[firstPointList[2]].speed],
                  raised |-> "none"])

\* Track.totalAccumulatedElevation: the cached value of the last point, or
\* the pass
totalAccumulatedElevation(h, segs) ==
    LET lastSeg   == segs[Len(segs)]
        lastPoint == lastSeg[Len(lastSeg)]
    IN  IF IsNone(h[lastPoint].accumulatedElevation)
        THEN Force(_computeAccElevationForEachTrackPoint(h, segs), LAMBDA h1 :
                 [heap |-> h1, value |-> Val(h1[lastPoint].accumulatedElevation)])
        ELSE [heap |-> h, value |-> Val(h[lastPoint].accumulatedElevation)]

\* ---------------------------------------------------- Track.produceSeries
\* maximum allowed pace, min/km
MAXIMUM_PACE == 60
\* the speed below which the pace is limited, m/s
MINIMUM_SPEED == Rat(100, 6 * MAXIMUM_PACE)

\* (mutant) the pace computed without the limit
paceUnlimited(speed) == RatDiv(RatMul(RatDiv(RatOfInt(1), speed), RatOfInt(100)), RatOfInt(6))

\* _getY for dataKind "pace": (1/speed) * 100/6, limited to MAXIMUM_PACE
pace(speed) ==
    IF RatLess(MINIMUM_SPEED, speed)
    THEN RatDiv(RatMul(RatDiv(RatOfInt(1), speed), RatOfInt(100)), RatOfInt(6))
    ELSE RatOfInt(MAXIMUM_PACE)

\* _getY for dataKind "speed km/h"
speedKm_H(speed) == RatDiv(RatMul(speed, RatOfInt(36)), RatOfInt(10))

\* _getX: elapsed time for "time series", else the accumulated distance
\* (None while the distance pass has not run)
getX(h, p, arrangeAs, initialTime) ==
    IF arrangeAs = "time series"
    THEN RatOfInt(timeInterval(h[p].time, initialTime))
    ELSE IF IsNone(h[p].accumulatedDistance) THEN None
         ELSE RatOfInt(Val(h[p].accumulatedDistance))

\* _getY: pace, speed in km/h, else the elevation
getY(h, p, dataKind) ==
    IF dataKind = "pace" THEN pace(Val(h[p].speed))
    ELSE IF dataKind = "speed km/h" THEN speedKm_H(Val(h[p].speed))
    ELSE RatOfInt(h[p].elevation)

\* Track.produceSeries: the passes the request needs, then one (x, y) pair
\* per point in point order
produceSeries(h, segs, arrangeAs, dataKind) ==
    LET withDistance == IF arrangeAs = "distance series"
                        THEN _computeAccDistanceForEachTrackPoint(h, segs) ELSE h
        withSpeed(h1) == IF dataKind \in {"pace", "speed km/h"}
                         THEN _computeSpeedForEachTrackPoint(h1, segs)
                         ELSE [heap |-> h1, raised |-> "none"]
        points == Flatten(segs)
    IN  Force(Force(withDistance, LAMBDA h1 : withSpeed(h1)), LAMBDA sp :
            IF sp.raised # "none"
            THEN [heap |-> sp.heap, raised |-> sp.raised, series |-> <<>>]
            ELSE [heap |-> sp.heap, raised |-> "none",
                  series |-> [i \in 1..Len(points) |->
                                 <<getX(sp.heap, points[i], arrangeAs,
                                        getStartTime(sp.heap, segs)),
                                   getY(sp.heap, points[i], dataKind)>>]])

\* ------------------------------------------------------------------ Analyse
\* (mutant) the sum taken from the start of the series, not from lo
RECURSIVE SumYFromStart(_, _, _)
SumYFromStart(series, lo, hi) ==
    IF hi <= 0 THEN RatOfInt(0)
    ELSE RatAdd(SumYFromStart(series, lo, hi - 1), series[hi][2])

\* sum([series[j][1] for j in range(lo, hi)]), lo and hi 0-based
RECURSIVE SumY(_, _, _)
SumY(series, lo, hi) ==
    IF lo >= hi THEN RatOfInt(0)
    ELSE RatAdd(series[lo + 1][2], SumY(series, lo + 1, hi))

\* first phase of filterSeries, "for i in range(nForAverage - 1)": series[i]
\* raises IndexError past the end of the series
RECURSIVE FilterWarmUp(_, _, _, _)
FilterWarmUp(series, nForAverage, i, out) ==
    IF i >= nForAverage - 1 THEN [series |-> out, raised |-> "none"]
    ELSE IF i >= Len(series) THEN [series |-> out, raised |-> "IndexError"]
    ELSE LET newYvalue == RatDiv(SumY(series, 0, i + 1), RatOfInt(i + 1))
         IN  Force(Append(out, <<series[i + 1][1], newYvalue>>),
                   LAMBDA o : FilterWarmUp(series, nForAverage, i + 1, o))

\* second phase of filterSeries, "for i in range(nForAverage - 1, len(series))"
RECURSIVE FilterRunning(_, _, _, _)
FilterRunning(series, nForAverage, i, out) ==
    IF i >= Len(series) THEN out
    ELSE LET newYvalue == RatDiv(SumY(series, i - nForAverage + 1, i + 1),
                                 RatOfInt(nForAverage))
         IN  Force(Append(out, <<series[i + 1][1], newYvalue>>),
                   LAMBDA o : FilterRunning(series, nForAverage, i + 1, o))

\* Analyse.filterSeries, for nForAverage >= 1
filterSeries(series, nForAverage) ==
    Force(FilterWarmUp(series, nForAverage, 0, <<>>), LAMBDA warm :
        IF warm.raised # "none" THEN [series |-> <<>>, raised |-> warm.raised]
        ELSE [series |-> FilterRunning(series, nForAverage, nForAverage - 1, warm.series),
              raised |-> "none"])

\* Python's int() of a non-negative number
IntPart(x) == x[1] \div x[2]

\* Python's round() of a non-negative number: to the nearest integer, a half
\* to the even one
Round(x) ==
    LET low == x[1] \div x[2]
        rest == 2 * (x[1] % x[2])
    IN  IF rest > x[2] THEN low + 1
        ELSE IF rest < x[2] THEN low
        ELSE IF low % 2 = 0 THEN low ELSE low + 1

\* (mutant) 60 seconds left as they are
paceWithoutCarry(paceInDecimalMinutes) ==
    LET minutes == IntPart(paceInDecimalMinutes)
        seconds == ToString(Round(RatMul(RatAdd(paceInDecimalMinutes, RatOfInt(0 - minutes)),
                                         RatOfInt(60))))
    IN  ToString(minutes) \o ":" \o (IF Len(seconds) = 1 THEN "0" \o seconds ELSE seconds)
            \o "/km"

\* Analyse.paceDecimalMinutesToMinSec
paceDecimalMinutesToMinSec(paceInDecimalMinutes) ==
    LET minutes == IntPart(paceInDecimalMinutes)
        decimalPart == RatAdd(paceInDecimalMinutes, RatOfInt(0 - minutes))
        rounded == Round(RatMul(decimalPart, RatOfInt(60)))
        carried == IF rounded = 60 THEN <<minutes + 1, 0>> ELSE <<minutes, rounded>>
        seconds == ToString(carried[2])
    IN  ToString(carried[1]) \o ":" \o (IF Len(seconds) = 1 THEN "0" \o seconds ELSE seconds)
            \o "/km"

\* ------------------------------------------------------------------- Lap
\* the scan of getFastestPace: the first element, replaced by each later
\* element whose pace is smaller than the one kept; None for no element
RECURSIVE FastestScan(_, _, _)
FastestScan(seriesList, i, maxPace) ==
    IF i > Len(seriesList) THEN maxPace
    ELSE LET element == seriesList[i]
         IN  Force(IF maxPace = None THEN element
                   ELSE IF RatLess(element[2], maxPace[2]) THEN element
                   ELSE maxPace,
                   LAMBDA kept : FastestScan(seriesList, i + 1, kept))

\* the scan of getSlowestPace
RECURSIVE SlowestScan(_, _, _)
SlowestScan(seriesList, i, minPace) ==
    IF i > Len(seriesList) THEN minPace
    ELSE LET element == seriesList[i]
         IN  Force(IF minPace = None THEN element
                   ELSE IF RatLess(minPace[2], element[2]) THEN element
                   ELSE minPace,
                   LAMBDA kept : SlowestScan(seriesList, i + 1, kept))

\* Lap.getFastestPace / getSlowestPace: the pace series along measureAlong,
\* smoothed, then scanned
getPace(h, segs, nForAverage, measureAlong, slowest) ==
    Force(produceSeries(h, segs, measureAlong \o " series", "pace"), LAMBDA produced :
        IF produced.raised # "none"
        THEN [heap |-> produced.heap, raised |-> produced.raised,
              series |-> <<>>, value |-> None]
        ELSE Force(filterSeries(produced.series, nForAverage), LAMBDA smoothed :
            IF smoothed.raised # "none"
            THEN [heap |-> produced.heap, raised |-> smoothed.raised,
                  series |-> <<>>, value |-> None]
            ELSE [heap |-> produced.heap, raised |-> "none",
                  series |-> smoothed.series,
                  value |-> IF slowest THEN SlowestScan(smoothed.series, 1, None)
                            ELSE FastestScan(smoothed.series, 1, None)]))
getFastestPace(h, segs, nForAverage, measureAlong) ==
    getPace(h, segs, nForAverage, measureAlong, FALSE)
getSlowestPace(h, segs, nForAverage, measureAlong) ==
    getPace(h, segs, nForAverage, measureAlong, TRUE)

\* ------------------------------------------------------------ LapExtractor
\* (mutant) the slice used as it is: the laps hold the reference track's points
deepcopyAliased(h, pointIds, fresh) == [heap |-> h, list |-> pointIds]

\* copy.deepcopy of a list of TrackPoint: a new object per point, with new ids
\* fresh + 1 .. fresh + len
deepcopy(h, pointIds, fresh) ==
    [heap |-> h @@ [k \in (fresh + 1)..(fresh + Len(pointIds)) |-> h[pointIds[k - fresh]]],
     list |-> [k \in 1..Len(pointIds) |-> fresh + k]]

\* (mutant) the end boundary left out of the section
lapSliceWithoutEnd(ser, first, last) == Slice(ser, first, last)

\* (mutant) the section started after the boundary shared with the lap before
lapSliceAfterStart(ser, first, last) == Slice(ser, first + 1, last + 1)

\* the section serializedTrack[first : last + 1] that _split clones for a lap
lapSlice(ser, first, last) == Slice(ser, first, last + 1)

\* (mutant) the accumulated distance of the reference track kept in the lap
rebaseKept(accumulatedDistance, initialAccumulatedDistance) == accumulatedDistance

\* the accumulated distance _split gives a cloned point: measured from the
\* first point of the lap
rebase(accumulatedDistance, initialAccumulatedDistance) ==
    accumulatedDistance - initialAccumulatedDistance

\* Lap.__init__: one track segment holding the given points
Lap(lapNumber, startingDistance, listOfPoints) ==
    [lapNumber |-> lapNumber, startingDistance |-> startingDistance,
     trackSegList |-> <<listOfPoints>>]

\* the loop "for i in range(len(listOfSplitIndices)-1)" of _split; i is 0-based
RECURSIVE SplitLoop(_, _, _, _, _, _)
SplitLoop(h, ser, indices, i, fresh, listOfLaps) ==
    IF i >= Len(indices) - 1
    THEN [heap |-> h, laps |-> listOfLaps, raised |-> "none"]
    ELSE Force(deepcopy(h, lapSlice(ser, indices[i + 1], indices[i + 2]), fresh),
               LAMBDA copy :
         LET nextListOfPoints == copy.list
         IN  IF nextListOfPoints = <<>>
             THEN [heap |-> h, laps |-> listOfLaps, raised |-> "IndexError"]
             ELSE LET initialAccumulatedDistance ==
                          Val(copy.heap[nextListOfPoints[1]].accumulatedDistance)
                      ids == {nextListOfPoints[k] : k \in 1..Len(nextListOfPoints)}
                      h1  == [p \in DOMAIN copy.heap |->
                                 IF p \in ids
                                 THEN [copy.heap[p] EXCEPT !.accumulatedDistance =
                                          Some(rebase(Val(copy.heap[p].accumulatedDistance),
                                                      initialAccumulatedDistance))]
                                 ELSE copy.heap[p]]
                      nextLap == Lap(i + 1, initialAccumulatedDistance, nextListOfPoints)
                  IN  Force(<<h1, Append(listOfLaps, nextLap)>>, LAMBDA done :
                          SplitLoop(done[1], ser, indices, i + 1,
                                    fresh + Len(nextListOfPoints), done[2])))

\* LapExtractor._split: the laps between consecutive boundary indices
_split(h, ser, indices, fresh) == SplitLoop(h, ser, indices, 0, fresh, <<>>)

\* (mutant) the walk goes on until the lap distance exceeds autoSplitValue
RECURSIVE AutoDistanceWalkPast(_, _, _, _, _, _)
AutoDistanceWalkPast(h, ser, autoSplitValue, initialAccumulatedDistance, lapDistance, index) ==
    IF lapDistance <= autoSplitValue /\ index < Len(ser)
    THEN AutoDistanceWalkPast(h, ser, autoSplitValue, initialAccumulatedDistance,
             Val(h[ser[index + 1]].accumulatedDistance) - initialAccumulatedDistance,
             index + 1)
    ELSE index

\* inner loop of getAutoLapsByDistance: the index after the walk
RECURSIVE AutoDistanceWalk(_, _, _, _, _, _)
AutoDistanceWalk(h, ser, autoSplitValue, initialAccumulatedDistance, lapDistance, index) ==
    IF lapDistance < autoSplitValue /\ index < Len(ser)
    THEN AutoDistanceWalk(h, ser, autoSplitValue, initialAccumulatedDistance,
             Val(h[ser[index + 1]].accumulatedDistance) - initialAccumulatedDistance,
             index + 1)
    ELSE index

\* (mutant) the end of a lap registered at index, not index - 1, and clamped
\* to the last index: the last point becomes a lap of its own
RECURSIVE AutoDistanceIndicesClamped(_, _, _, _, _)
AutoDistanceIndicesClamped(h, ser, autoSplitValue, index, indices) ==
    IF index < Len(ser)
    THEN LET initialAccumulatedDistance == Val(h[ser[index]].accumulatedDistance)
             next == AutoDistanceWalk(h, ser, autoSplitValue,
                                      initialAccumulatedDistance, 0, index)
             end  == IF next > Len(ser) - 1 THEN Len(ser) - 1 ELSE next
         IN  AutoDistanceIndicesClamped(h, ser, autoSplitValue, next, Append(indices, end))
    ELSE indices

\* outer loop of getAutoLapsByDistance: the list of split indices
RECURSIVE AutoDistanceIndices(_, _, _, _, _)
AutoDistanceIndices(h, ser, autoSplitValue, index, indices) ==
    IF index < Len(ser)
    THEN LET initialAccumulatedDistance == Val(h[ser[index]].accumulatedDistance)
             next == AutoDistanceWalk(h, ser, autoSplitValue,
                                      initialAccumulatedDistance, 0, index)
         IN  AutoDistanceIndices(h, ser, autoSplitValue, next, Append(indices, next - 1))
    ELSE indices

\* inner loop of getAutoLapsByTime
RECURSIVE AutoTimeWalk(_, _, _, _, _, _)
AutoTimeWalk(h, ser, autoSplitValue, initialTime, lapTime, index) ==
    IF lapTime < autoSplitValue /\ index < Len(ser)
    THEN AutoTimeWalk(h, ser, autoSplitValue, initialTime,
             timeInterval(h[ser[index + 1]].time, initialTime), index + 1)
    ELSE index

\* (mutant) the lap time measured from the first point of the track
RECURSIVE AutoTimeIndicesFromTrackStart(_, _, _, _, _)
AutoTimeIndicesFromTrackStart(h, ser, autoSplitValue, index, indices) ==
    IF index < Len(ser)
    THEN LET next == AutoTimeWalk(h, ser, autoSplitValue, h[ser[1]].time, 0, index)
         IN  AutoTimeIndicesFromTrackStart(h, ser, autoSplitValue, next,
                                           Append(indices, next - 1))
    ELSE indices

\* outer loop of getAutoLapsByTime
RECURSIVE AutoTimeIndices(_, _, _, _, _)
AutoTimeIndices(h, ser, autoSplitValue, index, indices) ==
    IF index < Len(ser)
    THEN LET initialTime == h[ser[index]].time
             next == AutoTimeWalk(h, ser, autoSplitValue, initialTime, 0, index)
         IN  AutoTimeIndices(h, ser, autoSplitValue, next, Append(indices, next - 1))
    ELSE indices

\* inner loop of getLapsFromListOfDistanceMarkers
RECURSIVE DistanceMarkerWalk(_, _, _, _, _)
DistanceMarkerWalk(h, ser, nextSplitPoint, totalAccDistance, index) ==
    IF totalAccDistance < nextSplitPoint /\ index < Len(ser)
    THEN DistanceMarkerWalk(h, ser, nextSplitPoint,
             Val(h[ser[index + 1]].accumulatedDistance), index + 1)
    ELSE index

\* (mutant) the loop ends without an error once the markers are used up
RECURSIVE DistanceMarkerIndicesUsedUp(_, _, _, _, _, _)
DistanceMarkerIndicesUsedUp(h, ser, listOfMarkers, index, markerIndex, indices) ==
    IF index < Len(ser) /\ markerIndex < Len(listOfMarkers)
    THEN LET next == DistanceMarkerWalk(h, ser, listOfMarkers[markerIndex + 1],
                         Val(h[ser[index]].accumulatedDistance), index)
         IN  DistanceMarkerIndicesUsedUp(h, ser, listOfMarkers, next, markerIndex + 1,
                                         Append(indices, next - 1))
    ELSE [indices |-> indices, raised |-> "none"]

\* outer loop of getLapsFromListOfDistanceMarkers; listOfMarkers[markerIndex]
\* raises IndexError once the markers are used up
RECURSIVE DistanceMarkerIndices(_, _, _, _, _, _)
DistanceMarkerIndices(h, ser, listOfMarkers, index, markerIndex, indices) ==
    IF index < Len(ser)
    THEN IF markerIndex >= Len(listOfMarkers)
         THEN [indices |-> indices, raised |-> "IndexError"]
         ELSE LET nextSplitPoint == listOfMarkers[markerIndex + 1]
                  next == DistanceMarkerWalk(h, ser, nextSplitPoint,
                              Val(h[ser[index]].accumulatedDistance), index)
              IN  DistanceMarkerIndices(h, ser, listOfMarkers, next, markerIndex + 1,
                                        Append(indices, next - 1))
    ELSE [indices |-> indices, raised |-> "none"]

\* inner loop of getLapsFromListOfTimeMarkers
RECURSIVE TimeMarkerWalk(_, _, _, _, _, _)
TimeMarkerWalk(h, ser, startTime, nextSplitPoint, totalAccTime, index) ==
    IF totalAccTime < nextSplitPoint /\ index < Len(ser)
    THEN TimeMarkerWalk(h, ser, startTime, nextSplitPoint,
             timeInterval(h[ser[index + 1]].time, startTime), index + 1)
    ELSE index

\* outer loop of getLapsFromListOfTimeMarkers
RECURSIVE TimeMarkerIndices(_, _, _, _, _, _, _)
TimeMarkerIndices(h, ser, startTime, listOfMarkers, index, markerIndex, indices) ==
    IF index < Len(ser)
    THEN IF markerIndex >= Len(listOfMarkers)
         THEN [indices |-> indices, raised |-> "IndexError"]
         ELSE LET nextSplitPoint == listOfMarkers[markerIndex + 1]
                  next == TimeMarkerWalk(h, ser, startTime, nextSplitPoint,
                              timeInterval(h[ser[index]].time, startTime), index)
              IN  TimeMarkerIndices(h, ser, startTime, listOfMarkers, next,
                                    markerIndex + 1, Append(indices, next - 1))
    ELSE [indices |-> indices, raised |-> "none"]

\* the list of split indices each extraction builds before calling _split
getAutoLapsByDistanceIndices(h, ser, autoSplitValue) ==
    [indices |-> AutoDistanceIndices(h, ser, autoSplitValue, 1, <<0>>),
     raised |-> "none"]
getAutoLapsByTimeIndices(h, ser, autoSplitValue) ==
    [indices |-> AutoTimeIndices(h, ser, autoSplitValue, 1, <<0>>),
     raised |-> "none"]
getLapsFromListOfDistanceMarkersIndices(h, ser, listOfMarkers) ==
    DistanceMarkerIndices(h, ser, listOfMarkers, 1, 0, <<0>>)
getLapsFromListOfTimeMarkersIndices(h, ser, listOfMarkers) ==
    TimeMarkerIndices(h, ser, h[ser[1]].time, listOfMarkers, 1, 0, <<0>>)

\* ------------------------------------------------------------ the program
\* the elevation of the terrain at a latitude: the track runs over fixed
\* ground, so that the elevations of its points go up and down
Terrain(lat) == lat % (MaxEle + 1)

\* strictly increasing lists of markers in 0..MaxMarker, one per non-empty
\* subset
RECURSIVE SortedList(_)
SortedList(S) ==
    IF S = {} THEN <<>>
    ELSE LET m == CHOOSE x \in S : \A y \in S : x <= y
         IN  <<m>> \o SortedList(S \ {m})
MarkerLists == {SortedList(S) : S \in (SUBSET (0..MaxMarker)) \ {{}}}

\* the track as the parser hands it over: n points in time order, each
\* 0..MaxStep metres and up to MaxDt seconds after its predecessor, in one
\* segment or cut in two non-empty segments after point cut
RECURSIVE SumTo(_, _)
SumTo(f, k) == IF k = 0 THEN 0 ELSE f[k] + SumTo(f, k - 1)

ParsedPoints(n, steps, dts) ==
    [i \in 1..n |-> TrackPoint(SumTo(steps, i - 1), 0, SumTo(dts, i - 1),
                               Terrain(SumTo(steps, i - 1)))]

ParsedSegments(n, cut) ==
    IF cut = 0 THEN <<[k \in 1..n |-> k]>>
    ELSE <<[k \in 1..cut |-> k], [k \in 1..(n - cut) |-> cut + k]>>

\* the ids of the reference track's points, and the heap without the laps of
\* an earlier call (they are garbage once the caller gets a new list)
TrackIds == {Flatten(trackSegList)[k] : k \in 1..Len(Flatten(trackSegList))}
TrackHeap(h) == [p \in TrackIds |-> h[p]]

NoResult == [series |-> <<>>, value |-> None]

\* the locals of an extraction that is building its list of split indices;
\* no extraction is building one
NoFrame == [pc |-> "idle", index |-> 0, markerIndex |-> 0]

\* the state after parsing a track of 2..maxPoints points, with the steps
\* drawn from stepSet, the time lapses from dtSet and the cut from 0..maxCut
Parsed(maxPoints, stepSet, dtSet, maxCut) ==
    /\ \E n \in 2..maxPoints :
       \E steps \in [1..(n - 1) -> stepSet] :
       \E dts \in [1..(n - 1) -> dtSet] :
       \E cut \in 0..(IF maxCut < n - 1 THEN maxCut ELSE n - 1) :
          /\ heap = ParsedPoints(n, steps, dts)
          /\ trackSegList = ParsedSegments(n, cut)
    /\ serializedTrack = <<>>
    /\ laps = <<>>
    /\ listOfSplitIndices = <<>>
    /\ call = [op |-> "parse", arg |-> <<>>]
    /\ raised = "none"
    /\ result = NoResult
    /\ used = 0
    /\ frame = NoFrame
    /\ newTrack = None

\* a recording with strictly increasing timestamps
Init == Parsed(MaxPoints, 0..MaxStep, 1..MaxDt, MaxPoints)

\* LapExtractor.__init__, on the parsed track or after the track's
\* accumulated elevation was computed
NewLapExtractor ==
    /\ serializedTrack = <<>>
    /\ call.op \in {"parse", "_computeAccElevationForEachTrackPoint",
                    "totalAccumulatedElevation"}
    /\ raised = "none"
    /\ LET ser == getSerialized(heap, trackSegList)
       IN  /\ heap' = ser.heap
           /\ serializedTrack' = ser.list
    /\ call' = [op |-> "LapExtractor", arg |-> <<>>]
    /\ raised' = "none"
    /\ UNCHANGED <<trackSegList, laps, listOfSplitIndices, result, used, frame, newTrack>>

\* the extractor is built and has not been asked for laps yet: a run extracts
\* once, a later call would read the same serialized track and return equal laps
CanExtract ==
    /\ serializedTrack # <<>>
    /\ listOfSplitIndices = <<>>

\* the body shared by the four extractions: the split indices built, then
\* _split unless building them raised
Extract(op, arg, built) ==
    /\ call' = [op |-> op, arg |-> arg]
    /\ listOfSplitIndices' = built.indices
    /\ IF built.raised # "none"
       THEN /\ raised' = built.raised
            /\ heap' = TrackHeap(heap)
            /\ laps' = <<>>
       ELSE \E out \in {_split(TrackHeap(heap), serializedTrack, built.indices,
                                Cardinality(TrackIds))} :
                /\ raised' = out.raised
                /\ heap' = out.heap
                /\ laps' = out.laps
    /\ UNCHANGED <<trackSegList, serializedTrack, result, used, frame, newTrack>>

GetAutoLapsByDistance(autoSplitValue) ==
    /\ CanExtract
    /\ \E built \in {getAutoLapsByDistanceIndices(heap, serializedTrack, autoSplitValue)} :
           Extract("getAutoLapsByDistance", autoSplitValue, built)

GetAutoLapsByTime(autoSplitValue) ==
    /\ CanExtract
    /\ \E built \in {getAutoLapsByTimeIndices(heap, serializedTrack, autoSplitValue)} :
           Extract("getAutoLapsByTime", autoSplitValue, built)

GetLapsFromListOfDistanceMarkers(listOfMarkers) ==
    /\ CanExtract
    /\ \E built \in {getLapsFromListOfDistanceMarkersIndices(heap, serializedTrack, listOfMarkers)} :
           Extract("getLapsFromListOfDistanceMarkers", listOfMarkers, built)

GetLapsFromListOfTimeMarkers(listOfMarkers) ==
    /\ CanExtract
    /\ \E built \in {getLapsFromListOfTimeMarkersIndices(heap, serializedTrack, listOfMarkers)} :
           Extract("getLapsFromListOfTimeMarkers", listOfMarkers, built)

Next ==
    \/ NewLapExtractor
    \/ \E s \in 1..MaxSplit : GetAutoLapsByDistance(s)
    \/ \E s \in 1..MaxSplit : GetAutoLapsByTime(s)
    \/ \E m \in MarkerLists : GetLapsFromListOfDistanceMarkers(m)
    \/ \E m \in MarkerLists : GetLapsFromListOfTimeMarkers(m)

Spec == Init /\ [][Next]_vars

\* the four extractions on a longer recording: up to MaxPoints + 1 points in
\* one segment, each step 0 or 1 metre and each time lapse 1 or MaxDt seconds
InitLong == Parsed(MaxPoints + 1, {0, 1}, {1, MaxDt}, 0)

SpecLong == InitLong /\ [][Next]_vars

\* ------------------------------------------------- using track and laps
\* the object a call is made on: 0 is the reference track, k >= 1 is lap k of
\* the list the extraction returned
Targets == 0..Len(laps)
\* the track hidePartOfTrack returned is the target Hidden
Hidden == 0 - 1
SegsOf(tg) ==
    IF tg = 0 THEN trackSegList
    ELSE IF tg = Hidden THEN Val(newTrack)
    ELSE laps[tg].trackSegList
IdsOf(tg) == {Flatten(SegsOf(tg))[k] : k \in 1..Len(Flatten(SegsOf(tg)))}

ArrangeAs == {"time series", "distance series"}
DataKinds == {"pace", "speed km/h", "elevation"}
MeasureAlong == {"distance", "time"}
\* the values handed to the setters
SetterValues == {0, MaxSplit}

\* a run makes up to MaxCalls calls, one after the other, on the parsed track,
\* or on the track and the laps once the extraction has returned
Usable ==
    /\ used < MaxCalls
    /\ \/ used > 0
       \/ call.op = "parse"
       \/ call.op = "hidePartOfTrack"
       \/ call.op \in {"getAutoLapsByDistance", "getAutoLapsByTime",
                       "getLapsFromListOfDistanceMarkers",
                       "getLapsFromListOfTimeMarkers"} /\ raised = "none"

Use(op, arg, h, r, res) ==
    /\ call' = [op |-> op, arg |-> arg]
    /\ heap' = h
    /\ raised' = r
    /\ result' = res
    /\ used' = used + 1
    /\ UNCHANGED <<trackSegList, serializedTrack, laps, listOfSplitIndices, frame, newTrack>>

ComputeAccDistance(tg) ==
    /\ Usable
    /\ \E h \in {_computeAccDistanceForEachTrackPoint(heap, SegsOf(tg))} :
           Use("_computeAccDistanceForEachTrackPoint", <<tg>>, h, "none", NoResult)

ComputeAccElevation(tg) ==
    /\ Usable
    /\ \E h \in {_computeAccElevationForEachTrackPoint(heap, SegsOf(tg))} :
           Use("_computeAccElevationForEachTrackPoint", <<tg>>, h, "none", NoResult)

ComputeSpeed(tg) ==
    /\ Usable
    /\ \E out \in {_computeSpeedForEachTrackPoint(heap, SegsOf(tg))} :
           Use("_computeSpeedForEachTrackPoint", <<tg>>, out.heap, out.raised, NoResult)

ProduceSeries(tg, arrangeAs, dataKind) ==
    /\ Usable
    /\ \E out \in {produceSeries(heap, SegsOf(tg), arrangeAs, dataKind)} :
           Use("produceSeries", <<tg, arrangeAs, dataKind>>, out.heap, out.raised,
               [series |-> out.series, value |-> None])

\* TrackPoint.setAccumulatedDistance, setAccumulatedElevation, setSpeed on
\* point j of the target
SetAccumulatedDistance(tg, j, v) ==
    /\ Usable
    /\ j \in 1..Len(Flatten(SegsOf(tg)))
    /\ Use("setAccumulatedDistance", <<tg, j, v>>,
           [heap EXCEPT ![Flatten(SegsOf(tg))[j]].accumulatedDistance = Some(v)],
           "none", NoResult)

SetAccumulatedElevation(tg, j, v) ==
    /\ Usable
    /\ j \in 1..Len(Flatten(SegsOf(tg)))
    /\ Use("setAccumulatedElevation", <<tg, j, v>>,
           [heap EXCEPT ![Flatten(SegsOf(tg))[j]].accumulatedElevation = Some(v)],
           "none", NoResult)

SetSpeed(tg, j, v) ==
    /\ Usable
    /\ j \in 1..Len(Flatten(SegsOf(tg)))
    /\ Use("setSpeed", <<tg, j, v>>,
           [heap EXCEPT ![Flatten(SegsOf(tg))[j]].speed = Some(RatOfInt(v))],
           "none", NoResult)

GetFastestPace(k, nForAverage, measureAlong) ==
    /\ Usable
    /\ k \in 1..Len(laps)
    /\ \E out \in {getFastestPace(heap, SegsOf(k), nForAverage, measureAlong)} :
           Use("getFastestPace", <<k, nForAverage, measureAlong>>, out.heap, out.raised,
               [series |-> out.series, value |-> out.value])

GetSlowestPace(k, nForAverage, measureAlong) ==
    /\ Usable
    /\ k \in 1..Len(laps)
    /\ \E out \in {getSlowestPace(heap, SegsOf(k), nForAverage, measureAlong)} :
           Use("getSlowestPace", <<k, nForAverage, measureAlong>>, out.heap, out.raised,
               [series |-> out.series, value |-> out.value])

\* a recording of one point per second in a single segment
InitUse == Parsed(MaxPoints, 0..MaxStep, {1}, 0)

NextUse ==
    \/ NewLapExtractor
    \/ \E s \in 1..MaxSplit : GetAutoLapsByDistance(s)
    \/ \E s \in 1..MaxSplit : GetAutoLapsByTime(s)
    \/ \E m \in MarkerLists : GetLapsFromListOfDistanceMarkers(m)
    \/ \E m \in MarkerLists : GetLapsFromListOfTimeMarkers(m)
    \/ \E tg \in Targets : ComputeAccDistance(tg)
    \/ \E tg \in Targets : ComputeAccElevation(tg)
    \/ \E tg \in Targets : ComputeSpeed(tg)
    \/ \E tg \in Targets : \E a \in ArrangeAs : \E d \in DataKinds : ProduceSeries(tg, a, d)
    \/ \E tg \in Targets : \E j \in 1..(MaxPoints + 1) : \E v \in SetterValues :
           SetAccumulatedDistance(tg, j, v)
    \/ \E tg \in Targets : \E j \in 1..(MaxPoints + 1) : \E v \in SetterValues :
           SetAccumulatedElevation(tg, j, v)
    \/ \E tg \in Targets : \E j \in 1..(MaxPoints + 1) : \E v \in SetterValues :
           SetSpeed(tg, j, v)
    \/ \E k \in Targets : \E n \in 1..MaxAverage : \E m \in MeasureAlong :
           GetFastestPace(k, n, m)
    \/ \E k \in Targets : \E n \in 1..MaxAverage : \E m \in MeasureAlong :
           GetSlowestPace(k, n, m)

SpecUse == InitUse /\ [][NextUse]_vars

\* ------------------------------------------------------------ the totals
\* Track.totalDistance and Track.totalAccumulatedElevation on the target
TotalDistance(tg) ==
    /\ Usable
    /\ \E out \in {totalDistance(heap, SegsOf(tg))} :
           Use("totalDistance", <<tg>>, out.heap, "none",
               [series |-> <<>>, value |-> out.value])

TotalAccumulatedElevation(tg) ==
    /\ Usable
    /\ \E out \in {totalAccumulatedElevation(heap, SegsOf(tg))} :
           Use("totalAccumulatedElevation", <<tg>>, out.heap, "none",
               [series |-> <<>>, value |-> out.value])

\* a recording of one point per second in a single segment; the totals, the
\* two passes and the setters on the last point of the track
InitTotals == Parsed(MaxPoints, 0..MaxStep, {1}, 0)

NextTotals ==
    \/ TotalDistance(0)
    \/ TotalAccumulatedElevation(0)
    \/ ComputeAccDistance(0)
    \/ ComputeAccElevation(0)
    \/ \E v \in SetterValues : SetAccumulatedDistance(0, Len(Flatten(trackSegList)), v)
    \/ \E v \in SetterValues : SetAccumulatedElevation(0, Len(Flatten(trackSegList)), v)

SpecTotals == InitTotals /\ [][NextTotals]_vars

\* ------------------------------------------------- the evenly spaced track
\* a track of 2500 m run at constant pace in m equal steps, in one segment or
\* cut in two.  The unit of distance is 500/m metres: a step is 5, the track
\* is 5*m long and 1000 m is 2*m.
InitEven ==
    /\ \E m \in 1..MaxEvenSteps : \E dt \in 1..MaxDt : \E cut \in 0..m :
          /\ heap = ParsedPoints(m + 1, [i \in 1..m |-> 5], [i \in 1..m |-> dt])
          /\ trackSegList = ParsedSegments(m + 1, cut)
    /\ serializedTrack = <<>>
    /\ laps = <<>>
    /\ listOfSplitIndices = <<>>
    /\ call = [op |-> "parse", arg |-> <<>>]
    /\ raised = "none"
    /\ result = NoResult
    /\ used = 0
    /\ frame = NoFrame
    /\ newTrack = None

\* the extractor, then getAutoLapsByDistance(1000.0)
NextEven ==
    \/ NewLapExtractor
    \/ GetAutoLapsByDistance(2 * (Len(Flatten(trackSegList)) - 1))

SpecEven == InitEven /\ [][NextEven]_vars

\* ------------------------------------------------------ the pace format
\* a pace at hand, in min/km
InitFormat ==
    /\ heap = <<>>
    /\ trackSegList = <<>>
    /\ serializedTrack = <<>>
    /\ laps = <<>>
    /\ listOfSplitIndices = <<>>
    /\ call = [op |-> "pace", arg |-> <<>>]
    /\ raised = "none"
    /\ used = 0
    /\ frame = NoFrame
    /\ newTrack = None
    /\ \E k \in 0..MaxPaceUnits : result = [series |-> <<>>, value |-> Rat(k, PaceUnit)]

\* Analyse.paceDecimalMinutesToMinSec(pace) on the pace at hand
PaceDecimalMinutesToMinSec ==
    /\ call.op = "pace"
    /\ call' = [op |-> "paceDecimalMinutesToMinSec", arg |-> <<result.value>>]
    /\ result' = [series |-> <<>>, value |-> paceDecimalMinutesToMinSec(result.value)]
    /\ raised' = "none"
    /\ UNCHANGED <<heap, trackSegList, serializedTrack, laps, listOfSplitIndices, used, frame, newTrack>>

NextFormat == PaceDecimalMinutesToMinSec

SpecFormat == InitFormat /\ [][NextFormat]_vars

\* ------------------------------------------------- kinds outside the lists
\* an arrangeAs, a dataKind and a measureAlong that the docstrings do not list
OtherArrangeAs == {"speed series"}
OtherDataKinds == {"heart rate"}
OtherMeasureAlong == {"speed"}

\* produceSeries on the track and the pace extremes of the first lap, called
\* with the listed kinds and with the others
NextKinds ==
    \/ NewLapExtractor
    \/ \E s \in 1..MaxSplit : GetAutoLapsByDistance(s)
    \/ \E a \in ArrangeAs \cup OtherArrangeAs : \E d \in DataKinds \cup OtherDataKinds :
           ProduceSeries(0, a, d)
    \/ \E m \in MeasureAlong \cup OtherMeasureAlong : GetFastestPace(1, 1, m)
    \/ \E m \in MeasureAlong \cup OtherMeasureAlong : GetSlowestPace(1, 1, m)

SpecKinds == InitUse /\ [][NextKinds]_vars

\* ------------------------------------------------------- the speed pass
\* a recording of up to MaxPoints + 1 points in one or two segments, each
\* step 0 or MaxStep metres and each time lapse 1 or MaxDt seconds
InitSpeed == Parsed(MaxPoints + 1, {0, MaxStep}, {1, MaxDt}, MaxPoints + 1)

NextSpeed == ComputeSpeed(0)

SpecSpeed == InitSpeed /\ [][NextSpeed]_vars

\* ------------------------------------------- points with the same timestamp
\* a recording whose timestamps do not decrease: each time lapse is 0..MaxDt
\* seconds, each step 0 or MaxStep metres, in one or two segments
InitStill == Parsed(MaxPoints, {0, MaxStep}, 0..MaxDt, MaxPoints)

NextStill ==
    \/ ComputeSpeed(0)
    \/ \E a \in ArrangeAs : \E d \in DataKinds : ProduceSeries(0, a, d)

SpecStill == InitStill /\ [][NextStill]_vars

\* ------------------------------------------------------- the pace values
\* two points in one segment, 0..MaxMeters metres and 1..MaxSeconds seconds
\* apart
InitPace == Parsed(2, 0..MaxMeters, 1..MaxSeconds, 0)

NextPace == \E a \in ArrangeAs : \E d \in DataKinds : ProduceSeries(0, a, d)

SpecPace == InitPace /\ [][NextPace]_vars

\* ------------------------------------------------------ the series filter
\* the series of 1..MaxLen pairs of numbers
SeriesInputs ==
    UNION {[1..n -> {<<RatOfInt(x), RatOfInt(y)>> : x \in 0..MaxX, y \in 0..MaxY}]
           : n \in 1..MaxLen}

\* a series at hand, produced earlier
InitSeries ==
    /\ heap = <<>>
    /\ trackSegList = <<>>
    /\ serializedTrack = <<>>
    /\ laps = <<>>
    /\ listOfSplitIndices = <<>>
    /\ call = [op |-> "series", arg |-> <<>>]
    /\ raised = "none"
    /\ used = 0
    /\ frame = NoFrame
    /\ newTrack = None
    /\ \E series \in SeriesInputs : result = [series |-> series, value |-> None]

\* Analyse.filterSeries(series, nForAverage) on the series at hand
FilterSeries(nForAverage) ==
    /\ call.op = "series"
    /\ \E out \in {filterSeries(result.series, nForAverage)} :
           /\ call' = [op |-> "filterSeries", arg |-> <<result.series, nForAverage>>]
           /\ raised' = out.raised
           /\ result' = [series |-> out.series, value |-> None]
    /\ UNCHANGED <<heap, trackSegList, serializedTrack, laps, listOfSplitIndices, used, frame, newTrack>>

NextSeries == \E n \in 1..(MaxLen + 1) : FilterSeries(n)

SpecSeries == InitSeries /\ [][NextSeries]_vars

\* ---------------------------------------------------------------- claims
AutoOps == {"getAutoLapsByDistance", "getAutoLapsByTime"}
MarkerOps == {"getLapsFromListOfDistanceMarkers", "getLapsFromListOfTimeMarkers"}
ExtractionOps == AutoOps \cup MarkerOps

\* the reference track's total distance and total time, as the docstrings of
\* the marker extractions use them
TrackTotalDistance == Val(heap[serializedTrack[Len(serializedTrack)]].accumulatedDistance)
TrackTotalTime == totalTime(heap, trackSegList)

StrictlyIncreasing(s) == \A k \in 1..(Len(s) - 1) : s[k] < s[k + 1]

\* the last call was an extraction called as its docstring requires
WithinPreconditions ==
    /\ call.op \in ExtractionOps
    /\ call.op \in AutoOps => call.arg > 0
    /\ call.op \in MarkerOps => StrictlyIncreasing(call.arg)
    /\ call.op = "getLapsFromListOfDistanceMarkers" =>
           call.arg[Len(call.arg)] >= TrackTotalDistance
    /\ call.op = "getLapsFromListOfTimeMarkers" =>
           call.arg[Len(call.arg)] >= TrackTotalTime

\* the last call was an extraction and it returned its list of laps
Returned == call.op \in ExtractionOps /\ raised = "none"

LapPointList(k) == laps[k].trackSegList[1]
FirstPointOf(k) == heap[LapPointList(k)[1]]
LastPointOf(k) == heap[LapPointList(k)[Len(LapPointList(k))]]

SamePlaceAndTime(p, q) ==
    /\ p.lat = q.lat
    /\ p.lon = q.lon
    /\ p.elevation = q.elevation
    /\ p.time = q.time

\* C1: after any of the four extractions called within its preconditions,
\* the last point of lap i and the first point of lap i+1 have the same
\* latitude, longitude, elevation and timestamp, for every adjacent pair.
C1_SharedBoundaryPoint ==
    (WithinPreconditions /\ Returned) =>
        \A k \in 1..(Len(laps) - 1) :
            SamePlaceAndTime(LastPointOf(k), FirstPointOf(k + 1))

C1_Witness ==
    /\ WithinPreconditions /\ Returned
    /\ call.op = "getLapsFromListOfTimeMarkers"
    /\ Len(laps) >= 2
    /\ LapPointList(1) # LapPointList(2)

RECURSIVE SumOfLapDistances(_)
SumOfLapDistances(k) ==
    IF k = 0 THEN 0
    ELSE totalDistance(heap, laps[k].trackSegList).value + SumOfLapDistances(k - 1)

\* C2: the sum of lap.totalDistance() over the laps getAutoLapsByDistance(S)
\* returns for a positive S equals track.totalDistance(), and so does the sum
\* over the laps getLapsFromListOfTimeMarkers returns when the last marker is
\* >= the track's total time.
C2_LapDistancesSumToTotal ==
    (/\ Returned
     /\ \/ call.op = "getAutoLapsByDistance" /\ call.arg > 0
        \/ /\ call.op = "getLapsFromListOfTimeMarkers"
           /\ call.arg[Len(call.arg)] >= TrackTotalTime)
    => SumOfLapDistances(Len(laps)) = totalDistance(heap, trackSegList).value

C2_Witness ==
    /\ Returned
    /\ call.op = "getAutoLapsByDistance"
    /\ Len(laps) >= 2
    /\ \A k \in 1..Len(laps) : totalDistance(heap, laps[k].trackSegList).value > 0

\* C4: for a positive autoSplitValue the boundary indices built by
\* getAutoLapsByDistance and getAutoLapsByTime are strictly increasing, every
\* returned lap has at least 2 points, and so no one-point tail is a lap.
C4_AutoBoundariesStrictlyIncrease ==
    (call.op \in AutoOps /\ call.arg > 0) =>
        /\ raised = "none"
        /\ StrictlyIncreasing(listOfSplitIndices)
        /\ \A k \in 1..Len(laps) : Len(LapPointList(k)) >= 2

\* the walk of the last lap ended on the track's last point by the index
\* bound, with the split value not reached
C4_Witness ==
    /\ call.op = "getAutoLapsByTime"
    /\ Len(laps) >= 2
    /\ timeInterval(LastPointOf(Len(laps)).time, FirstPointOf(Len(laps)).time) < call.arg

\* C5 (as claimed): with a strictly increasing marker list whose last value
\* is >= the track's total distance (total time), every lap the marker
\* extraction returns has at least 2 points, i.e. the boundary indices are
\* strictly increasing.
C5_MarkerLapsHaveTwoPoints ==
    (WithinPreconditions /\ Returned /\ call.op \in MarkerOps) =>
        /\ StrictlyIncreasing(listOfSplitIndices)
        /\ \A k \in 1..Len(laps) : Len(LapPointList(k)) >= 2

\* the points of the track are the points of the laps
Covered ==
    \A i \in 1..Len(serializedTrack) :
        \E k \in 1..Len(laps) : \E j \in 1..Len(LapPointList(k)) :
            /\ i = listOfSplitIndices[k] + j
            /\ SamePlaceAndTime(heap[LapPointList(k)[j]], heap[serializedTrack[i]])

\* C6 (as claimed): an extraction called within its preconditions returns
\* laps built from boundaries that start at index 0 and end at the last index
\* of the flattened point list, so that every point of the track is in a lap.
C6_BoundariesSpanTheTrack ==
    WithinPreconditions =>
        /\ raised = "none"
        /\ listOfSplitIndices[1] = 0
        /\ listOfSplitIndices[Len(listOfSplitIndices)] = Len(serializedTrack) - 1
        /\ Covered

\* C7: for every returned lap, startingDistance is the reference track's
\* accumulated distance at the lap's first point, the lap's first point has
\* accumulatedDistance 0, and every other point has its reference-track
\* accumulated distance minus startingDistance.
C7_RebasedDistances ==
    Returned =>
        \A k \in 1..Len(laps) :
            LET first == listOfSplitIndices[k]
                refAcc(j) == Val(heap[serializedTrack[first + j]].accumulatedDistance)
            IN  /\ laps[k].startingDistance = refAcc(1)
                /\ FirstPointOf(k).accumulatedDistance = Some(0)
                /\ \A j \in 1..Len(LapPointList(k)) :
                       heap[LapPointList(k)[j]].accumulatedDistance
                           = Some(refAcc(j) - laps[k].startingDistance)

C7_Witness ==
    /\ Returned
    /\ Len(laps) >= 2
    /\ laps[2].startingDistance > 0
    /\ LastPointOf(2).accumulatedDistance # Some(0)

\* the calls made on the track or on a lap; the first argument is the target
PassOps == {"_computeAccDistanceForEachTrackPoint",
            "_computeAccElevationForEachTrackPoint",
            "_computeSpeedForEachTrackPoint"}
SetterOps == {"setAccumulatedDistance", "setAccumulatedElevation", "setSpeed"}
MutatingOps == PassOps \cup SetterOps \cup {"produceSeries"}

Derived(h, p) == <<h[p].accumulatedDistance, h[p].accumulatedElevation, h[p].speed>>
LapIds(k) == {LapPointList(k)[j] : j \in 1..Len(LapPointList(k))}

\* C3: a derived-attribute pass, a produceSeries call or a setter call on a
\* returned lap, after any earlier calls, leaves accumulatedDistance,
\* accumulatedElevation and speed of every point of the reference track and
\* of every other lap as they were, and such a call on the reference track
\* leaves them as they were on every point of every lap.
C3_LapsAreIndependentCopies ==
    [][(used' = used + 1 /\ call'.op \in MutatingOps /\ laps # <<>>) =>
          LET tg == call'.arg[1]
          IN  /\ tg >= 1 =>
                    /\ \A p \in TrackIds : Derived(heap', p) = Derived(heap, p)
                    /\ \A k \in 1..Len(laps) : k # tg =>
                           \A p \in LapIds(k) : Derived(heap', p) = Derived(heap, p)
              /\ tg = 0 =>
                    \A k \in 1..Len(laps) :
                        \A p \in LapIds(k) : Derived(heap', p) = Derived(heap, p)]_vars

\* the speed pass has run on lap 1 after an earlier call; the lap's last point
\* has its speed, its copy at the start of lap 2 and the track's points do not
C3_Witness ==
    /\ used = MaxCalls
    /\ call.op = "_computeSpeedForEachTrackPoint"
    /\ call.arg[1] = 1
    /\ raised = "none"
    /\ Len(laps) >= 2
    /\ LastPointOf(1).speed # None
    /\ FirstPointOf(2).speed = None
    /\ \A p \in TrackIds : heap[p].speed = None

\* the 1-based positions of the series whose y is the smallest / the largest
FastestPositions(series) ==
    {i \in 1..Len(series) :
        \A j \in 1..Len(series) : ~RatLess(series[j][2], series[i][2])}
SlowestPositions(series) ==
    {i \in 1..Len(series) :
        \A j \in 1..Len(series) : ~RatLess(series[i][2], series[j][2])}
LastOf(positions) == CHOOSE i \in positions : \A j \in positions : j <= i

\* C8: getFastestPace returns the pair of the smoothed pace series with the
\* smallest pace and getSlowestPace the pair with the largest, and when that
\* pace occurs at several positions the pair returned is the one of the last
\* occurrence.
C8_LastOccurrenceWins ==
    (call.op \in {"getFastestPace", "getSlowestPace"} /\ raised = "none") =>
        result.value = result.series[LastOf(IF call.op = "getFastestPace"
                                            THEN FastestPositions(result.series)
                                            ELSE SlowestPositions(result.series))]

\* C9: in a series produced with dataKind "pace" the y of a point is exactly
\* 60 when the point's speed is at most 100/(6*60) m/s, zero included, and
\* (1/speed)*100/6 otherwise; no pace exceeds 60 and nothing is raised.
C9_PaceIsLimited ==
    (call.op = "produceSeries" /\ call.arg[3] = "pace") =>
        /\ raised = "none"
        /\ Len(result.series) = Len(Flatten(trackSegList))
        /\ \A i \in 1..Len(result.series) :
               LET speed == Val(heap[Flatten(trackSegList)[i]].speed)
                   y == result.series[i][2]
               IN  /\ 360 * speed[1] <= 100 * speed[2] => y = <<60, 1>>
                   /\ 360 * speed[1] > 100 * speed[2] =>
                          y[1] * 6 * speed[1] = 100 * speed[2] * y[2]
                   /\ y[1] <= 60 * y[2]

\* a pace series over points that did not move: speed 0, pace 60
C9_Witness ==
    /\ call.op = "produceSeries"
    /\ call.arg[3] = "pace"
    /\ raised = "none"
    /\ \E i \in 1..Len(result.series) :
           /\ heap[Flatten(trackSegList)[i]].speed = Some(<<0, 1>>)
           /\ result.series[i][2] = <<60, 1>>

\* the sum of the y-values at the 0-based positions lo..hi of a series
RECURSIVE SumOfY(_, _, _)
SumOfY(series, lo, hi) ==
    IF hi < lo THEN <<0, 1>> ELSE RatAdd(SumOfY(series, lo, hi - 1), series[hi + 1][2])

\* C10: for 1 <= n <= len(series), filterSeries(series, n) returns a series
\* of the same length; output i keeps the x of input i, and its y is the
\* average of the first i+1 input y-values when i < n-1 and of the n input
\* y-values ending at i otherwise; filterSeries(series, 1) equals series.
C10_MovingAverage ==
    (call.op = "filterSeries" /\ call.arg[2] <= Len(call.arg[1])) =>
        LET series == call.arg[1]
            n == call.arg[2]
        IN  /\ raised = "none"
            /\ Len(result.series) = Len(series)
            /\ \A i \in 0..(Len(series) - 1) :
                   LET lo == IF i < n - 1 THEN 0 ELSE i - n + 1
                       sum == SumOfY(series, lo, i)
                       y == result.series[i + 1][2]
                   IN  /\ result.series[i + 1][1] = series[i + 1][1]
                       /\ y[2] > 0
                       /\ y[1] * sum[2] * (i - lo + 1) = sum[1] * y[2]
            /\ n = 1 => result.series = series

\* a series longer than the window, with a window of two or more: both the
\* first outputs and the trailing averages occur, and some y changes
C10_Witness ==
    /\ call.op = "filterSeries"
    /\ call.arg[2] >= 2
    /\ Len(call.arg[1]) > call.arg[2]
    /\ raised = "none"
    /\ result.series # call.arg[1]

\* the points of the reference track in track order
TrackPoints == Flatten(trackSegList)

\* C11: the distance pass gives the first point of the track 0 and every
\* other point its true predecessor's accumulated distance plus the distance
\* to that predecessor, also across a segment boundary; the values are those
\* the pass gives the same points grouped into a single segment.
C11_DistanceIgnoresSegments ==
    call.op = "LapExtractor" =>
        /\ heap[TrackPoints[1]].accumulatedDistance = Some(0)
        /\ \A i \in 2..Len(TrackPoints) :
               heap[TrackPoints[i]].accumulatedDistance =
                   Some(Val(heap[TrackPoints[i - 1]].accumulatedDistance)
                        + distance(heap[TrackPoints[i]], heap[TrackPoints[i - 1]]))
        /\ \A p \in TrackIds :
               heap[p].accumulatedDistance =
                   _computeAccDistanceForEachTrackPoint(heap, <<TrackPoints>>)[p]
                       .accumulatedDistance

\* a track of two segments whose second segment starts away from the end of
\* the first, after points that moved
C11_Witness ==
    /\ call.op = "LapExtractor"
    /\ Len(trackSegList) = 2
    /\ Len(trackSegList[1]) >= 2
    /\ Val(heap[trackSegList[1][Len(trackSegList[1])]].accumulatedDistance) > 0
    /\ Val(heap[trackSegList[2][1]].accumulatedDistance)
           > Val(heap[trackSegList[1][Len(trackSegList[1])]].accumulatedDistance)

\* C12: after the speed pass on a track whose segments all have at least two
\* points (timestamps strictly increasing), no point has an unset speed:
\* every point but the first has the distance to its true predecessor divided
\* by the time lapse to it, also across a segment boundary, and the first
\* point has the speed of the second.
C12_SpeedOfEveryPoint ==
    (/\ call.op = "_computeSpeedForEachTrackPoint"
     /\ \A k \in 1..Len(trackSegList) : Len(trackSegList[k]) >= 2) =>
        /\ raised = "none"
        /\ \A i \in 2..Len(TrackPoints) :
               LET cur == heap[TrackPoints[i]]
                   prev == heap[TrackPoints[i - 1]]
               IN  /\ cur.speed # None
                   /\ Val(cur.speed)[2] > 0
                   /\ Val(cur.speed)[1] * timeInterval(cur.time, prev.time)
                          = distance(cur, prev) * Val(cur.speed)[2]
        /\ heap[TrackPoints[1]].speed = heap[TrackPoints[2]].speed

\* two segments of two points; the second segment starts at a speed that is
\* not zero and not the speed of the point after it
C12_Witness ==
    /\ call.op = "_computeSpeedForEachTrackPoint"
    /\ raised = "none"
    /\ Len(trackSegList) = 2
    /\ Len(trackSegList[1]) >= 2
    /\ Len(trackSegList[2]) >= 2
    /\ heap[trackSegList[2][1]].speed # Some(<<0, 1>>)
    /\ heap[trackSegList[2][1]].speed # heap[trackSegList[2][2]].speed

\* the last point of the target of a call
LastPointOfTarget(tg) == Flatten(SegsOf(tg))[Len(Flatten(SegsOf(tg)))]

\* C13: totalDistance() and totalAccumulatedElevation() run their pass only
\* when the last point's field is unset; when it is set they return that
\* value and change no field of any point, so a call that follows the same
\* call returns the same value.
C13_TotalsAreCached ==
    [][(used' = used + 1 /\ call'.op \in {"totalDistance", "totalAccumulatedElevation"}) =>
          LET segs == SegsOf(call'.arg[1])
              last == LastPointOfTarget(call'.arg[1])
              ofDistance == call'.op = "totalDistance"
              field(h) == IF ofDistance THEN h[last].accumulatedDistance
                          ELSE h[last].accumulatedElevation
              passed == IF ofDistance
                        THEN _computeAccDistanceForEachTrackPoint(heap, segs)
                        ELSE _computeAccElevationForEachTrackPoint(heap, segs)
          IN  /\ raised' = "none"
              /\ field(heap) # None =>
                     /\ heap' = heap
                     /\ result'.value = Val(field(heap))
              /\ field(heap) = None =>
                     /\ heap' = passed
                     /\ result'.value = Val(field(passed))
              /\ (call = call' /\ raised = "none") => result'.value = result.value]_vars

\* totalDistance() has returned the value a setter left on the last point,
\* which is not the distance the pass computes
C13_Witness ==
    /\ call.op = "totalDistance"
    /\ used = MaxCalls
    /\ result.value = Val(heap[LastPointOfTarget(0)].accumulatedDistance)
    /\ result.value #
           Val(_computeAccDistanceForEachTrackPoint(heap, trackSegList)
                   [LastPointOfTarget(0)].accumulatedDistance)

\* the laps are three, start at 0, S and 2*S of the track and the last one is
\* shorter than S, for S the split value of the call
ThreeLapsOf(S) ==
    /\ raised = "none"
    /\ Len(laps) = 3
    /\ laps[1].startingDistance = 0
    /\ laps[2].startingDistance = S
    /\ laps[3].startingDistance = 2 * S
    /\ totalDistance(heap, laps[3].trackSegList).value < S

\* C14 as stated: on every track of exactly 2500 m run at constant pace,
\* whatever the spacing of its points, getAutoLapsByDistance(1000.0) returns
\* exactly 3 laps starting at 0, 1000 and 2000 m, the last shorter than 1000 m.
C14_ThreeLapsWhateverSpacing ==
    call.op = "getAutoLapsByDistance" => ThreeLapsOf(call.arg)

\* C14 amended: on a track of exactly 2500 m run at constant pace that has a
\* point at accumulated distance exactly 1000 m and one at exactly 2000 m,
\* getAutoLapsByDistance(1000.0) returns exactly 3 laps starting at 0, 1000
\* and 2000 m, the last shorter than 1000 m.
C14_ThreeLapsWhenPointsAtTheMarks ==
    (/\ call.op = "getAutoLapsByDistance"
     /\ \E p \in TrackIds : heap[p].accumulatedDistance = Some(call.arg)
     /\ \E p \in TrackIds : heap[p].accumulatedDistance = Some(2 * call.arg)) =>
        ThreeLapsOf(call.arg)

\* points every 250 m: three laps, of 5, 5 and 3 points
C14_Witness ==
    /\ call.op = "getAutoLapsByDistance"
    /\ Len(serializedTrack) = 11
    /\ Len(laps) = 3
    /\ laps[2].startingDistance = call.arg
    /\ Len(LapPointList(3)) = 3

\* M:SS/km
MinSec(M, S) ==
    ToString(M) \o ":" \o (IF S < 10 THEN "0" ELSE "") \o ToString(S) \o "/km"

\* C15: for a non-negative decimal pace, paceDecimalMinutesToMinSec returns
\* M:SS/km with SS two digits between 00 and 59, M minutes and SS seconds
\* being the pace rounded to a whole second: 60 seconds are never shown, they
\* become 00 with one more minute (4.5 gives 4:30/km, 4.999 gives 5:00/km).
C15_MinutesAndSeconds ==
    call.op = "paceDecimalMinutesToMinSec" =>
        LET p == call.arg[1]
        IN  /\ \E M \in 0..(IntPart(p) + 1) : \E S \in 0..59 :
                   /\ result.value = MinSec(M, S)
                   /\ 2 * (60 * p[1] - (60 * M + S) * p[2]) <= p[2]
                   /\ 2 * ((60 * M + S) * p[2] - 60 * p[1]) <= p[2]
            /\ p = <<9, 2>> => result.value = "4:30/km"
            /\ p = <<4999, 1000>> => result.value = "5:00/km"

\* a pace whose seconds round to 60: the minutes are carried
C15_Witness ==
    /\ call.op = "paceDecimalMinutesToMinSec"
    /\ call.arg[1] = <<4999, 1000>>
    /\ result.value = "5:00/km"

\* C16: produceSeries called with a dataKind or an arrangeAs outside the
\* listed ones, and getFastestPace / getSlowestPace called with a measureAlong
\* outside the listed ones, fail with an error and return no series.
C16_OtherKindsAreRejected ==
    (\/ /\ call.op = "produceSeries"
        /\ (call.arg[2] \notin ArrangeAs \/ call.arg[3] \notin DataKinds)
     \/ /\ call.op \in {"getFastestPace", "getSlowestPace"}
        /\ call.arg[3] \notin MeasureAlong) =>
        /\ raised # "none"
        /\ result.series = <<>>
        /\ result.value = None

\* C17: filterSeries called with nForAverage greater than len(series), for
\* every such value, len(series) + 1 included, fails with an error and
\* returns no series.
C17_LongWindowIsRejected ==
    (call.op = "filterSeries" /\ call.arg[2] > Len(call.arg[1])) =>
        /\ raised # "none"
        /\ result.series = <<>>

\* what a marker extraction compares with its markers at the point of 0-based
\* index i of the serialized track: the accumulated distance of the track, or
\* the time elapsed since the first point
GlobalValue(i) ==
    IF call.op = "getLapsFromListOfDistanceMarkers"
    THEN Val(heap[serializedTrack[i + 1]].accumulatedDistance)
    ELSE timeInterval(heap[serializedTrack[i + 1]].time, heap[serializedTrack[1]].time)

\* the 0-based index of the first point whose value reaches the marker, the
\* last index when no point does
FirstReaching(marker) ==
    LET reaching == {i \in 0..(Len(serializedTrack) - 1) : GlobalValue(i) >= marker}
    IN  IF reaching = {} THEN Len(serializedTrack) - 1
        ELSE CHOOSE i \in reaching : \A j \in reaching : i <= j

LastMarker == call.arg[Len(call.arg)]
LastIndex == Len(serializedTrack) - 1

\* the last call was a marker extraction whose last marker is below the total
\* distance (total time) of the track
ShortMarkerList ==
    /\ call.op \in MarkerOps
    /\ LastMarker < GlobalValue(LastIndex)

\* C18 as stated: a marker extraction called with a list whose last value is
\* less than the track's total distance (total time) returns a list of laps
\* that ends at the boundary of the last marker, the points after it being in
\* no lap.
C18_ShortListDropsTrailingPoints ==
    ShortMarkerList =>
        /\ raised = "none"
        /\ laps # <<>>
        /\ listOfSplitIndices[Len(listOfSplitIndices)] = FirstReaching(LastMarker)

\* C18 amended: such a call returns no lap and raises IndexError whenever a
\* point before the last one reaches the last marker; when only the last
\* point of the track reaches it, the call returns laps that end at the last
\* point, with every point of the track in a lap.
C18_ShortListRaisesOrCovers ==
    ShortMarkerList =>
        /\ FirstReaching(LastMarker) < LastIndex =>
               /\ raised = "IndexError"
               /\ laps = <<>>
        /\ FirstReaching(LastMarker) = LastIndex =>
               /\ raised = "none"
               /\ laps # <<>>
               /\ listOfSplitIndices[Len(listOfSplitIndices)] = LastIndex
               /\ Covered

\* points are left after the one that reaches the last marker: IndexError
C18_Witness ==
    /\ ShortMarkerList
    /\ call.op = "getLapsFromListOfDistanceMarkers"
    /\ Len(call.arg) >= 2
    /\ FirstReaching(LastMarker) < LastIndex
    /\ FirstReaching(LastMarker) > 0
    /\ raised = "IndexError"

\* what an automatic extraction measures between the points of 0-based
\* indices b and i of the serialized track: the distance covered, or the
\* time elapsed
Between(b, i) ==
    IF call.op = "getAutoLapsByDistance"
    THEN Val(heap[serializedTrack[i + 1]].accumulatedDistance)
             - Val(heap[serializedTrack[b + 1]].accumulatedDistance)
    ELSE timeInterval(heap[serializedTrack[i + 1]].time, heap[serializedTrack[b + 1]].time)

\* the smallest index after b at which the measure from b reaches S, the last
\* index when there is none
FirstReachingFrom(b, S) ==
    LET reaching == {i \in (b + 1)..LastIndex : Between(b, i) >= S}
    IN  IF reaching = {} THEN LastIndex
        ELSE CHOOSE i \in reaching : \A j \in reaching : i <= j

\* what lap k measures up to its point j, on the lap's own points
LapMeasure(k, j) ==
    IF call.op = "getAutoLapsByDistance"
    THEN Val(heap[LapPointList(k)[j]].accumulatedDistance)
    ELSE timeInterval(heap[LapPointList(k)[j]].time, FirstPointOf(k).time)

\* C19: getAutoLapsByDistance(S) and getAutoLapsByTime(S) with S > 0 restart
\* the accumulation at each lap's first point: every boundary after index 0
\* is the smallest index after the previous boundary b at which the distance
\* (elapsed time) from point b reaches or exceeds S, or the last index when
\* there is none; every lap but the last measures >= S, and every lap
\* measures < S without its last point.
C19_AutoLapsRestartAtEachLap ==
    (call.op \in AutoOps /\ call.arg > 0) =>
        /\ raised = "none"
        /\ listOfSplitIndices[1] = 0
        /\ \A k \in 2..Len(listOfSplitIndices) :
               listOfSplitIndices[k] = FirstReachingFrom(listOfSplitIndices[k - 1], call.arg)
        /\ listOfSplitIndices[Len(listOfSplitIndices)] = LastIndex
        /\ Len(laps) = Len(listOfSplitIndices) - 1
        /\ \A k \in 1..Len(laps) :
               /\ k < Len(laps) => LapMeasure(k, Len(LapPointList(k))) >= call.arg
               /\ LapMeasure(k, Len(LapPointList(k)) - 1) < call.arg

\* two laps by time: when the second lap starts S seconds or more have
\* elapsed, and the lap goes on to a third point before it measures S itself
C19_Witness ==
    /\ call.op = "getAutoLapsByTime"
    /\ Len(laps) = 2
    /\ LapMeasure(1, Len(LapPointList(1))) >= call.arg
    /\ Len(LapPointList(2)) = 3
    /\ LapMeasure(2, 3) >= call.arg

\* the number of markers used: the first marker that only the last point
\* reaches (or no point reaches) ends the last lap
MarkersUsed ==
    LET ending == {k \in 1..Len(call.arg) : FirstReaching(call.arg[k]) = LastIndex}
    IN  IF ending = {} THEN Len(call.arg)
        ELSE CHOOSE k \in ending : \A j \in ending : k <= j

\* lap k ends at the first point of the track whose track-global value
\* reaches marker k, and the markers after the one that reaches the last
\* point make no lap
MarkerLapsEndAtFirstReaching ==
    /\ Len(laps) = MarkersUsed
    /\ Len(listOfSplitIndices) = Len(laps) + 1
    /\ \A k \in 1..Len(laps) :
           /\ listOfSplitIndices[k + 1] = FirstReaching(call.arg[k])
           /\ SamePlaceAndTime(LastPointOf(k),
                               heap[serializedTrack[FirstReaching(call.arg[k]) + 1]])

\* C20: the marker extractions called with a valid marker list compare the
\* markers with the track-global accumulated distance (time elapsed since the
\* first point of the track): lap k ends at the first point of the track
\* whose global value is >= marker k, or at the last point if none is, and
\* the markers left once the last point is reached make no lap.
C20_MarkersAreTrackGlobal ==
    (WithinPreconditions /\ call.op \in MarkerOps) =>
        /\ raised = "none"
        /\ MarkerLapsEndAtFirstReaching

\* ------------------------------------------- the elevation gain of the laps
\* a recording of one point per second in a single segment, over ground that
\* goes up and down
InitElevation == Parsed(MaxPoints, 0..MaxStep, {1}, 0)

\* the track's elevation pass or total before the extractor is built or not at
\* all, the four extractions, then the total of a lap
NextElevation ==
    \/ ComputeAccElevation(0)
    \/ TotalAccumulatedElevation(0)
    \/ NewLapExtractor
    \/ \E s \in 1..MaxSplit : GetAutoLapsByDistance(s)
    \/ \E s \in 1..MaxSplit : GetAutoLapsByTime(s)
    \/ \E m \in MarkerLists : GetLapsFromListOfDistanceMarkers(m)
    \/ \E m \in MarkerLists : GetLapsFromListOfTimeMarkers(m)
    \/ \E k \in 1..MaxPoints : k <= Len(laps) /\ TotalAccumulatedElevation(k)

SpecElevation == InitElevation /\ [][NextElevation]_vars

\* ------------------------------------------------------ hiding part of a track
\* the inner loop of hidePartOfTrack: the points of a segment farther than
\* radius from the centre, the very objects of the segment
PointsOutside(h, pointList, centerPoint, radius) ==
    SelectSeq(pointList, LAMBDA p : distance(h[p], centerPoint) > radius)

\* the outer loop of hidePartOfTrack: a segment is kept if more than one of its
\* points is
RECURSIVE SegmentsOutside(_, _, _, _)
SegmentsOutside(h, segs, centerPoint, radius) ==
    IF segs = <<>> THEN <<>>
    ELSE LET newTrackSegment == PointsOutside(h, Head(segs), centerPoint, radius)
             rest == SegmentsOutside(h, Tail(segs), centerPoint, radius)
         IN  IF Len(newTrackSegment) > 1 THEN <<newTrackSegment>> \o rest ELSE rest

\* Track.hidePartOfTrack: the trackSegList of the new track
hidePartOfTrack(h, segs, center_lat, center_lon, radius) ==
    SegmentsOutside(h, segs, [lat |-> center_lat, lon |-> center_lon], radius)

\* the positions a centre is taken from: along the track and one past its end
Centres == 0..(MaxStep * (MaxPoints - 1) + 1)

\* newTrack = track.hidePartOfTrack(center_lat, 0, radius), once in a run
HidePartOfTrack(center_lat, radius) ==
    /\ newTrack = None
    /\ raised = "none"
    /\ newTrack' = Some(hidePartOfTrack(heap, trackSegList, center_lat, 0, radius))
    /\ call' = [op |-> "hidePartOfTrack", arg |-> <<center_lat, 0, radius>>]
    /\ UNCHANGED <<heap, trackSegList, serializedTrack, laps, listOfSplitIndices,
                   raised, result, used, frame>>

\* the new track holds a segment: the calls on it have points to work on
HasHidden == newTrack # None /\ Val(newTrack) # <<>>

\* a recording of one point per second, in one segment or two
InitHide == Parsed(MaxPoints, 0..MaxStep, {1}, MaxPoints)

\* the extractor and the totals and passes on the track, hidePartOfTrack, then
\* the totals, the passes and produceSeries on the new track
NextHide ==
    \/ NewLapExtractor
    \/ \E c \in Centres : \E r \in 0..MaxRadius : HidePartOfTrack(c, r)
    \/ TotalDistance(0)
    \/ ComputeAccElevation(0)
    \/ ComputeSpeed(0)
    \/ HasHidden /\ TotalDistance(Hidden)
    \/ HasHidden /\ ComputeAccDistance(Hidden)
    \/ HasHidden /\ ComputeAccElevation(Hidden)
    \/ HasHidden /\ ComputeSpeed(Hidden)
    \/ HasHidden /\ \E a \in ArrangeAs : \E d \in DataKinds : ProduceSeries(Hidden, a, d)

SpecHide == InitHide /\ [][NextHide]_vars

\* --------------------------------------- the extraction loops, pass by pass
\* The loops of the four extractions taken one pass of the outer loop at a
\* time: frame holds index and markerIndex, listOfSplitIndices the list being
\* built.  The list can hold MaxPasses entries at most.
InitLoops == Parsed(MaxPoints, {0, MaxStep}, {1, MaxDt}, 0)

\* the statements before the outer loop
StartExtraction(op, arg) ==
    /\ CanExtract
    /\ frame.pc = "idle"
    /\ call' = [op |-> op, arg |-> arg]
    /\ listOfSplitIndices' = <<0>>
    /\ frame' = [pc |-> "loop", index |-> 1, markerIndex |-> 0]
    /\ raised' = "none"
    /\ UNCHANGED <<heap, trackSegList, serializedTrack, laps, result, used, newTrack>>

\* the outer loop is at its test and the test holds
InLoop(op) ==
    /\ frame.pc = "loop"
    /\ call.op = op
    /\ frame.index < Len(serializedTrack)
    /\ Len(listOfSplitIndices) < MaxPasses

\* the end of a pass: listOfSplitIndices.append(index - 1)
EndOfPass(next, markerIndex) ==
    /\ listOfSplitIndices' = Append(listOfSplitIndices, next - 1)
    /\ frame' = [pc |-> "loop", index |-> next, markerIndex |-> markerIndex]
    /\ UNCHANGED <<heap, trackSegList, serializedTrack, laps, call, raised, result, used, newTrack>>

\* listOfMarkers[markerIndex] with the markers used up
RaiseIndexError ==
    /\ raised' = "IndexError"
    /\ frame' = [frame EXCEPT !.pc = "done"]
    /\ UNCHANGED <<heap, trackSegList, serializedTrack, laps, listOfSplitIndices,
                   call, result, used, newTrack>>

\* one pass of the outer loop of getAutoLapsByDistance
AutoDistancePass ==
    /\ InLoop("getAutoLapsByDistance")
    /\ LET initialAccumulatedDistance ==
               Val(heap[serializedTrack[frame.index]].accumulatedDistance)
       IN  EndOfPass(AutoDistanceWalk(heap, serializedTrack, call.arg,
                                      initialAccumulatedDistance, 0, frame.index),
                     frame.markerIndex)

\* one pass of the outer loop of getAutoLapsByTime
AutoTimePass ==
    /\ InLoop("getAutoLapsByTime")
    /\ LET initialTime == heap[serializedTrack[frame.index]].time
       IN  EndOfPass(AutoTimeWalk(heap, serializedTrack, call.arg, initialTime, 0,
                                  frame.index),
                     frame.markerIndex)

\* (mutant) a pass that leaves markerIndex where it was
DistanceMarkerPassSameMarker ==
    /\ InLoop("getLapsFromListOfDistanceMarkers")
    /\ IF frame.markerIndex >= Len(call.arg)
       THEN RaiseIndexError
       ELSE EndOfPass(DistanceMarkerWalk(heap, serializedTrack,
                          call.arg[frame.markerIndex + 1],
                          Val(heap[serializedTrack[frame.index]].accumulatedDistance),
                          frame.index),
                      frame.markerIndex)

\* one pass of the outer loop of getLapsFromListOfDistanceMarkers
DistanceMarkerPass ==
    /\ InLoop("getLapsFromListOfDistanceMarkers")
    /\ IF frame.markerIndex >= Len(call.arg)
       THEN RaiseIndexError
       ELSE EndOfPass(DistanceMarkerWalk(heap, serializedTrack,
                          call.arg[frame.markerIndex + 1],
                          Val(heap[serializedTrack[frame.index]].accumulatedDistance),
                          frame.index),
                      frame.markerIndex + 1)

\* one pass of the outer loop of getLapsFromListOfTimeMarkers
TimeMarkerPass ==
    /\ InLoop("getLapsFromListOfTimeMarkers")
    /\ IF frame.markerIndex >= Len(call.arg)
       THEN RaiseIndexError
       ELSE LET startTime == heap[serializedTrack[1]].time
            IN  EndOfPass(TimeMarkerWalk(heap, serializedTrack, startTime,
                              call.arg[frame.markerIndex + 1],
                              timeInterval(heap[serializedTrack[frame.index]].time,
                                           startTime),
                              frame.index),
                          frame.markerIndex + 1)

\* the outer loop is over: return self._split(listOfSplitIndices)
ReturnSplit ==
    /\ frame.pc = "loop"
    /\ frame.index >= Len(serializedTrack)
    /\ \E out \in {_split(TrackHeap(heap), serializedTrack, listOfSplitIndices,
                          Cardinality(TrackIds))} :
           /\ raised' = out.raised
           /\ heap' = out.heap
           /\ laps' = out.laps
    /\ frame' = [frame EXCEPT !.pc = "done"]
    /\ UNCHANGED <<trackSegList, serializedTrack, listOfSplitIndices, call, result, used, newTrack>>

\* the steps of a call that has started
LoopStep ==
    \/ AutoDistancePass
    \/ AutoTimePass
    \/ DistanceMarkerPass
    \/ TimeMarkerPass
    \/ ReturnSplit

\* the caller passes any autoSplitValue, positive or not, or any list of markers
NextLoops ==
    \/ NewLapExtractor
    \/ \E s \in (0 - 1)..MaxSplit : StartExtraction("getAutoLapsByDistance", s)
    \/ \E s \in (0 - 1)..MaxSplit : StartExtraction("getAutoLapsByTime", s)
    \/ \E m \in MarkerLists : StartExtraction("getLapsFromListOfDistanceMarkers", m)
    \/ \E m \in MarkerLists : StartExtraction("getLapsFromListOfTimeMarkers", m)
    \/ LoopStep

\* a call that has started is run on: the interpreter executes the next
\* statement of the method whenever there is one
SpecLoops == InitLoops /\ [][NextLoops]_vars /\ WF_vars(LoopStep)

\* ------------------------------------------------------------------- C21
Building == frame.pc = "loop"
Over == frame.pc = "done"
PositiveSplit == call.op \in AutoOps => call.arg > 0

\* C21: an extraction called with a positive autoSplitValue or with a finite
\* list of markers ends, returning laps or raising, and every pass of its
\* outer loop leaves index or markerIndex larger than it found it.
C21_ExtractionsTerminate ==
    /\ (Building /\ PositiveSplit) ~> Over
    /\ [][(Building /\ PositiveSplit /\ frame'.pc = "loop") =>
              \/ frame'.index > frame.index
              \/ frame'.markerIndex > frame.markerIndex]_vars

\* an extraction by markers has ended by raising after a pass that left index
\* where it was, and an automatic one has returned its laps after two passes
C21_Witness ==
    /\ Over
    /\ PositiveSplit
    /\ \/ /\ call.op \in MarkerOps
          /\ raised = "IndexError"
          /\ Len(listOfSplitIndices) >= 3
          /\ listOfSplitIndices[2] = 0
       \/ /\ call.op \in AutoOps
          /\ raised = "none"
          /\ Len(laps) = 2

\* ------------------------------------------------------------------- C26
\* C26: getAutoLapsByDistance and getAutoLapsByTime called with an
\* autoSplitValue that is zero or negative end: a pass of the outer loop takes
\* the call nearer to the end of the track, so the list of split indices never
\* holds more boundaries than the track has points.
C26_NonPositiveSplitEnds ==
    (call.op \in AutoOps /\ call.arg <= 0 /\ frame.pc # "idle") =>
        Len(listOfSplitIndices) <= Len(serializedTrack)

\* ------------------------------------------------------------------- C22
\* the laps getAutoLapsByDistance(autoSplitValue) returns on heap h: per lap
\* its starting distance and the attributes of its points
LapsOnHeap(h, autoSplitValue) ==
    LET built == getAutoLapsByDistanceIndices(h, serializedTrack, autoSplitValue)
        out == _split(h, serializedTrack, built.indices, Cardinality(TrackIds))
    IN  [k \in 1..Len(out.laps) |->
            [startingDistance |-> out.laps[k].startingDistance,
             points |-> [j \in 1..Len(out.laps[k].trackSegList[1]) |->
                            out.heap[out.laps[k].trackSegList[1][j]]]]]

OnHidden(ops) == used' = used + 1 /\ call'.op \in ops /\ call'.arg[1] = Hidden

\* C22: the distance, elevation or speed pass or produceSeries on the track
\* hidePartOfTrack returned leaves accumulatedDistance, accumulatedElevation
\* and speed of every point of the original track as they were, and the laps
\* an extractor built on the original track returns are the same after the
\* call as before it.
C22_HiddenTrackOwnsItsPoints ==
    [][OnHidden(PassOps \cup {"produceSeries"}) =>
          /\ \A p \in TrackIds : Derived(heap', p) = Derived(heap, p)
          /\ serializedTrack # <<>> =>
                 \A s \in 1..MaxSplit :
                     LapsOnHeap(TrackHeap(heap'), s) = LapsOnHeap(TrackHeap(heap), s)]_vars

\* ------------------------------------------------------------------- C23
\* the sum of the distances between the consecutive points of a track
RECURSIVE SumOfOwnDistances(_, _)
SumOfOwnDistances(h, points) ==
    IF Len(points) < 2 THEN 0
    ELSE distance(h[points[1]], h[points[2]]) + SumOfOwnDistances(h, Tail(points))

\* C23: totalDistance() of a track, also of the track hidePartOfTrack
\* returned and whatever was evaluated on the original track before, is the
\* sum of the distances between the track's own consecutive points.
C23_TotalDistanceOfOwnPoints ==
    (call.op = "totalDistance" /\ raised = "none") =>
        result.value = SumOfOwnDistances(heap, Flatten(SegsOf(call.arg[1])))

\* ------------------------------------------------------------------- C24
\* the sum of the positive elevation increments between consecutive points
RECURSIVE SumOfClimbs(_, _)
SumOfClimbs(h, points) ==
    IF Len(points) < 2 THEN 0
    ELSE LET up == h[points[2]].elevation - h[points[1]].elevation
         IN  (IF up > 0 THEN up ELSE 0) + SumOfClimbs(h, Tail(points))

\* C24: totalAccumulatedElevation() of a returned lap is the sum of the
\* positive elevation increments between the lap's own consecutive points,
\* whether or not the track's elevation pass or total ran before the laps were
\* extracted.
C24_LapElevationGainIsItsOwn ==
    (call.op = "totalAccumulatedElevation" /\ call.arg[1] >= 1) =>
        result.value = SumOfClimbs(heap, LapPointList(call.arg[1]))

\* ------------------------------------------------------------------- C25
SpeedCall ==
    \/ call.op = "_computeSpeedForEachTrackPoint"
    \/ call.op = "produceSeries" /\ call.arg[3] \in {"pace", "speed km/h"}

\* C25: on a track whose timestamps do not decrease, two consecutive points
\* with the same timestamp included, the speed pass and produceSeries with
\* "pace" or "speed km/h" do not raise and give every point a speed >= 0.
C25_SpeedWithEqualTimestamps ==
    SpeedCall =>
        /\ raised = "none"
        /\ \A p \in TrackIds :
               /\ ~IsNone(heap[p].speed)
               /\ ~RatLess(Val(heap[p].speed), RatOfInt(0))

====
